---- MODULE Spec2Model ----
(***************************************************************************)
(* Token lifecycle of the dating backend: the video_tokens / videos /      *)
(* token_activity_logs / viewer_responses tables of the schema, the        *)
(* BEFORE UPDATE triggers on video_tokens, the stored procedures           *)
(* access_video_by_token and create_custom_video_with_token, and the       *)
(* tokenService handlers (assignVideoToToken, submitTokenResponse) that    *)
(* run as sequences of separately committed statements.                    *)
(*                                                                         *)
(* Time is a discrete clock counted in days.  Every request is run by one  *)
(* of the processes of Procs; a stored procedure is one transaction, a     *)
(* handler of tokenService is one step per awaited statement.              *)
(***************************************************************************)
EXTENDS Integers, Sequences, FiniteSets, TLC

\* ---------------------------------------------------------------- bounds
MaxTime == 1
MaxProcs == 3
MaxReq == 3
MaxStored == 1

\* ---------------------------------------------------------- finite domains
Procs == 1..MaxProcs
Sessions == <<1, 2>>
Owner == Sessions[1]
Viewer == Sessions[2]
TokenIds == {1, 2, 3}
VideoIds == {1, 2, 3}
Users == {"u1", "u2"}
AuthUsers == Users \cup {"u3", "u4"}
DefaultDaysValid == 3
DaysValidInputs == {1, DefaultDaysValid}
SeedDaysValid == 30
GenerateDaysValid == 7
MaxDaysValid == 30
NULL == 0 - 1

\* ------------------------------------------------------------ token codes
\* A token code is its prefix, the number of characters after the dash and
\* the random value n the characters were made from; every generator writes
\* letters and digits only.  Two codes are the same string when the three
\* agree.
RandomValues == {1, 2, 3}
ProfileTokenBytes == 12
VideoTokenBytes == 10
NoCode == [prefix |-> "none", len |-> 0, n |-> 0]

\* encode(gen_random_bytes(k), 'hex'): two characters for each byte
HexLength(bytes) == 2 * bytes

\* 'PRO-' || encode(gen_random_bytes(12), 'hex')
generate_profile_token(n) ==
  [prefix |-> "PRO", len |-> HexLength(ProfileTokenBytes), n |-> n]

\* 'VID-' || encode(gen_random_bytes(10), 'hex')
generate_video_token(n) ==
  [prefix |-> "VID", len |-> HexLength(VideoTokenBytes), n |-> n]

TokenStatuses == {"active", "viewed", "expired", "revoked"}
ActivityTypes == {"created", "viewed", "responded", "expired", "revoked"}
AssignableStatuses == {"active", "unassigned", "inactive"}
\* (mutant) submitTokenResponse accepts a token of any status
RespondableStatusesAny == TokenStatuses

RespondableStatuses == {"active", "viewed"}

MsgNotFound == "Token not found"
MsgExpired == "Token has expired"
MsgViewed == "This video has already been viewed and is no longer available"
MsgRevoked == "This token has been revoked by the sender"
MsgDuplicate == "A response has already been submitted for this token"
MsgContact == "At least one contact method (email, phone, or Instagram) is required for interested responses"

InterestLevels == {"interested", "maybe_later", "not_interested"}
ContactMethods == {"email", "phone", "instagram"}

\* responseData: the interest level, whether email, phone and instagram are
\* given (non-empty), and the preferred contact method ("none" when absent).
\* The name is always given.
ResponseInput(level, e, ph, ig, pref) ==
  [interestLevel |-> level, email |-> e, phone |-> ph, instagram |-> ig,
   preferredContact |-> pref]

\* The responses the viewer of SpecResponses sends: every interest level, no
\* contact method or one of the three, no preferred method or one of the three.
AllResponseInputs ==
  { ResponseInput(l, c = "email", c = "phone", c = "instagram", pref) :
      l \in InterestLevels, c \in ContactMethods \cup {"none"},
      pref \in ContactMethods \cup {"none"} }

\* Every user has a profile row, found by its profile_token; "nobody" is a
\* PRO- token of no profile.
Profiles == Users
ProfileTokens == Profiles \cup {"nobody"}

\* The responses the viewers of Spec and SpecViewers send.
ResponseInputs ==
  { ResponseInput("interested", TRUE, FALSE, FALSE, "none"),
    ResponseInput("interested", FALSE, FALSE, FALSE, "none") }
NoInput == ResponseInput("none", FALSE, FALSE, FALSE, "none")

VARIABLES
  now,                  \* the clock NOW() reads
  videos,               \* table videos, by id
  video_tokens,         \* table video_tokens, by id (token_code is 1-1 with id)
  token_activity_logs,  \* table token_activity_logs, in insertion order
  viewer_responses,     \* table viewer_responses, in insertion order
  rowLock,              \* holder of the FOR UPDATE lock of each video_tokens row
  proc,                 \* the request each process is running
  reqs,                 \* number of requests started so far
  response,             \* the answer the last step returned to its caller, if any
  notifications,        \* table notifications, in insertion order
  disclosed,            \* history: how many times each token's video was handed out
  profiles,             \* table profiles, by id (the id of the auth user)
  auth_users            \* table auth.users: the ids of the accounts

vars == <<now, videos, video_tokens, token_activity_logs, viewer_responses,
          rowLock, proc, reqs, response, notifications, disclosed, profiles,
          auth_users>>

\* ------------------------------------------------------------------ rows
NoVideo == [present |-> FALSE, user_id |-> "none", video_type |-> "none",
            is_active |-> FALSE, is_viewed |-> FALSE, first_viewed_at |-> NULL,
            viewer_token_id |-> NULL]

NoToken == [present |-> FALSE, token_code |-> NoCode, status |-> "none",
            user_id |-> "none", video_id |-> NULL, expires_at |-> NULL,
            viewed_at |-> NULL]

NoProfile == [present |-> FALSE, profile_token |-> NoCode]

IdleProc == [op |-> "none", pc |-> "idle", token |-> NULL, video |-> NULL,
             user |-> "none", txnow |-> NULL, input |-> NoInput,
             found |-> {}, todo |-> {}]

NoResponse == [op |-> "none", token |-> NULL, at |-> NULL, result |-> "none",
               warning |-> FALSE, logged |-> FALSE, data |-> <<>>, codes |-> <<>>]

\* What a handler answers: the operation, the token it was called for, for a
\* redemption the NOW() of its transaction, and the result.  No handler puts a
\* warning in what it returns; every handler writes the error it throws to
\* colorLogger.error and writes nothing there when it returns its result.
\* data is what a read returns; codes is history, the token codes the request
\* generated.
Answer(kind, t, at, res) ==
  [op |-> kind, token |-> t, at |-> at, result |-> res,
   warning |-> FALSE, logged |-> (res # "success"), data |-> <<>>, codes |-> <<>>]

\* The answer of an issuance that generated the codes cs.
Issued(kind, t, res, cs) == [Answer(kind, t, NULL, res) EXCEPT !.codes = cs]

\* A row that was deleted: its id is not given out again.
DeletedVideo == [NoVideo EXCEPT !.video_type = "deleted"]
DeletedToken == [NoToken EXCEPT !.status = "deleted"]

FreeVideoIds == {v \in VideoIds : videos[v] = NoVideo}
FreeTokenIds == {t \in TokenIds : video_tokens[t] = NoToken}
Min(S) == CHOOSE x \in S : \A y \in S : x <= y

LogEntry(t, kind) == [log_type |-> "video_token", profile_id |-> "none",
                      video_token_id |-> t, activity_type |-> kind]

\* INSERT INTO token_activity_logs under the CHECK constraint on activity_type:
\* a row with another activity_type is refused and the table is unchanged.
InsertLog(logs, entry) ==
  IF entry.activity_type \in ActivityTypes THEN Append(logs, entry) ELSE logs

RECURSIVE InsertLogs(_, _)
InsertLogs(logs, entries) ==
  IF entries = <<>> THEN logs
  ELSE InsertLogs(InsertLog(logs, Head(entries)), Tail(entries))

\* --------------------------------------------- triggers on video_tokens
\* handle_video_token_expiration: BEFORE UPDATE, trigger check_video_token_expiration
handle_video_token_expiration(id, new, txnow) ==
  IF new.expires_at < txnow /\ new.status = "active"
  THEN [row |-> [new EXCEPT !.status = "expired"], logs |-> <<LogEntry(id, "expired")>>]
  ELSE [row |-> new, logs |-> <<>>]

\* handle_video_token_viewing: BEFORE UPDATE, trigger handle_video_token_viewing_trigger
handle_video_token_viewing(id, old, new, txnow) ==
  IF old.status = "active" /\ new.status = "viewed"
  THEN [row |-> [new EXCEPT !.viewed_at = txnow],
        logs |-> <<LogEntry(id, "viewed")>>,
        viewVideo |-> TRUE]
  ELSE [row |-> new, logs |-> <<>>, viewVideo |-> FALSE]

\* UPDATE videos SET is_viewed, first_viewed_at, viewer_token_id WHERE id = new.video_id
MarkVideoViewed(vs, vid, id, txnow) ==
  IF vid \in VideoIds /\ vs[vid].present
  THEN [vs EXCEPT ![vid] = [@ EXCEPT !.is_viewed = TRUE,
                                     !.first_viewed_at = txnow,
                                     !.viewer_token_id = id]]
  ELSE vs

\* An UPDATE of one video_tokens row: the two BEFORE UPDATE triggers fire in
\* the order of their names (check_... before handle_...), the second sees
\* the row the first returned.
UpdateVideoToken(id, old, new, txnow) ==
  LET e == handle_video_token_expiration(id, new, txnow)
      v == handle_video_token_viewing(id, old, e.row, txnow)
  IN  [row |-> v.row, logs |-> e.logs \o v.logs, viewVideo |-> v.viewVideo]

\* ------------------------------------------------------------ requests
\* A client issues its next request once the previous one has returned.
CanStart(p) == proc[p].pc = "idle" /\ reqs < MaxReq

NewVideo(u, kind) == [present |-> TRUE, user_id |-> u, video_type |-> kind,
                      is_active |-> TRUE, is_viewed |-> FALSE,
                      first_viewed_at |-> NULL, viewer_token_id |-> NULL]

NewToken(u, vid, expires, code) ==
  [present |-> TRUE, token_code |-> code, status |-> "active", user_id |-> u,
   video_id |-> vid, expires_at |-> expires, viewed_at |-> NULL]

NewProfile(code) == [present |-> TRUE, profile_token |-> code]

\* The database when the clock starts: user u1 has made two composite
\* creations, video 1 with token 1, a day ago with daysValid 1 (it expires at
\* 0, so it is still valid at 0 and past its expiry from 1 on), and video 2
\* with token 2, now, with the default daysValid.  Ids 3 are free for the
\* creations the model runs itself.
Init ==
  /\ now = 0
  /\ videos = [v \in VideoIds |-> IF v \in {1, 2} THEN NewVideo("u1", "custom") ELSE NoVideo]
  /\ video_tokens = [t \in TokenIds |->
                       CASE t = 1 -> NewToken("u1", 1, 0, generate_video_token(1))
                         [] t = 2 -> NewToken("u1", 2, DefaultDaysValid,
                                              generate_video_token(2))
                         [] OTHER -> NoToken]
  /\ token_activity_logs = <<LogEntry(1, "created"), LogEntry(2, "created")>>
  /\ viewer_responses = <<>>
  /\ rowLock = [t \in TokenIds |-> 0]
  /\ proc = [p \in Procs |-> IdleProc]
  /\ reqs = 0
  /\ response = NoResponse
  /\ notifications = <<>>
  /\ disclosed = [t \in TokenIds |-> 0]
  /\ profiles = [u \in AuthUsers |->
                   CASE u = "u1" -> NewProfile(generate_profile_token(1))
                     [] u = "u2" -> NewProfile(generate_profile_token(2))
                     [] OTHER -> NoProfile]
  /\ auth_users = Users

\* The handler of process p returns ans to its caller.
Returns(p, ans) ==
  /\ proc' = [proc EXCEPT ![p] = IdleProc]
  /\ response' = ans

\* The handler of process p goes on as rec, nothing is answered yet.
Continues(p, rec) ==
  /\ proc' = [proc EXCEPT ![p] = rec]
  /\ response' = NoResponse

Tick ==
  /\ now < MaxTime
  /\ now' = now + 1
  /\ response' = NoResponse
  /\ UNCHANGED <<profiles, auth_users, videos, video_tokens, token_activity_logs, viewer_responses,
                 rowLock, proc, reqs, notifications, disclosed>>

\* ------------------------------------------------- composite creation
\* The body of the stored procedure create_custom_video_with_token: the video
\* row, the token row and the 'created' log entry, written in one transaction.
create_custom_video_with_token(u, days, n) ==
  LET vid == Min(FreeVideoIds)
      tid == Min(FreeTokenIds)
  IN  /\ videos' = [videos EXCEPT ![vid] = NewVideo(u, "custom")]
      /\ video_tokens' = [video_tokens EXCEPT ![tid] =
                             NewToken(u, vid, now + days, generate_video_token(n))]
      /\ token_activity_logs' = InsertLog(token_activity_logs, LogEntry(tid, "created"))

\* token_code ... UNIQUE NOT NULL: the insert of a row is refused when the code
\* is null or another row holds it.  (The width of the column is not modelled.)
AcceptsTokenCode(code) ==
  /\ code # NoCode
  /\ \A t \in TokenIds : video_tokens[t].token_code # code

\* The random values create_custom_video_with_token draws for its code:
\* v_token_code := generate_video_token() is called once, the unique_violation
\* of the insert is not caught.
CodesTried(n) == <<n>>

\* tokenService.createCustomVideoWithToken: the RPC alone.  A failure of any
\* statement of the procedure (ok is FALSE, or the code is refused) aborts its
\* transaction and the handler throws.
CreateCustomVideoWithToken(p, u, days, ok, n) ==
  /\ CanStart(p)
  /\ FreeVideoIds # {} /\ FreeTokenIds # {}
  /\ reqs' = reqs + 1
  /\ LET tried == CodesTried(n)
         last  == tried[Len(tried)]
         codes == [i \in 1..Len(tried) |-> generate_video_token(tried[i])]
     IN  IF ok /\ AcceptsTokenCode(generate_video_token(last))
         THEN /\ create_custom_video_with_token(u, days, last)
              /\ Returns(p, Issued("create", Min(FreeTokenIds), "success", codes))
         ELSE /\ UNCHANGED <<videos, video_tokens, token_activity_logs>>
              /\ Returns(p, Issued("create", NULL, "error", codes))
  /\ UNCHANGED <<now, profiles, auth_users, notifications, viewer_responses, rowLock, disclosed>>

\* The seeder's createCustomVideoWithToken: the RPC first, and when the RPC
\* fails the manual fallback, statement by statement.
SeedRpc(p, u, ok, n) ==
  /\ CanStart(p)
  /\ FreeVideoIds # {} /\ FreeTokenIds # {}
  /\ reqs' = reqs + 1
  /\ LET tried == CodesTried(n)
         last  == tried[Len(tried)]
         codes == [i \in 1..Len(tried) |-> generate_video_token(tried[i])]
     IN  IF ok /\ AcceptsTokenCode(generate_video_token(last))
         THEN /\ create_custom_video_with_token(u, SeedDaysValid, last)
              /\ Returns(p, Issued("seed", Min(FreeTokenIds), "success", codes))
         ELSE /\ UNCHANGED <<videos, video_tokens, token_activity_logs>>
              /\ Continues(p, [IdleProc EXCEPT !.op = "seed", !.pc = "seed_video",
                                                !.user = u])
  /\ UNCHANGED <<now, profiles, auth_users, notifications, viewer_responses, rowLock, disclosed>>

\* fallback: insert into videos; on videoError the function returns success: false
SeedInsertVideo(p, ok) ==
  /\ proc[p].pc = "seed_video"
  /\ IF ok /\ FreeVideoIds # {}
     THEN /\ videos' = [videos EXCEPT ![Min(FreeVideoIds)] = NewVideo(proc[p].user, "custom")]
          /\ Continues(p, [proc[p] EXCEPT !.pc = "seed_token", !.video = Min(FreeVideoIds)])
     ELSE /\ UNCHANGED videos
          /\ Returns(p, Answer("seed", NULL, NULL, "error"))
  /\ UNCHANGED <<now, profiles, auth_users, notifications, video_tokens, token_activity_logs, viewer_responses, rowLock, reqs,
                 disclosed>>

\* What the fallback does about the video row it inserted when the token
\* insert fails: `if (tokenError) throw tokenError` goes straight to the outer
\* catch, the row stays.
SeedTokenFailure(vs, vid) == vs

\* Math.random().toString(36) is "0." and the digits of the number in base
\* 36: a number of digits for each value Math.random() returns, none for 0,
\* one for 0.5, eleven for most.
MathRandomDigits == {0, 1, 6, 11}

\* .substring(2, 2 + most) and .substr(2, most): the digits, most of them at most
RandomSuffix(digits, most) == IF digits < most THEN digits ELSE most

\* The code the seeder's fallback inserts: the data of the RPC
\* generate_video_token, which is null when the RPC returns an error, and
\* `VID-${Math.random().toString(36).substring(2, 10)}` when the RPC throws.
SeedTokenCode(rpc, n, digits) ==
  CASE rpc = "data"  -> generate_video_token(n)
    [] rpc = "error" -> NoCode
    [] OTHER         -> [prefix |-> "VID", len |-> RandomSuffix(digits, 8), n |-> n]

RpcOutcomes == {"data", "error", "throws"}
SeedTokenCodes ==
  {SeedTokenCode(rpc, n, d) : rpc \in RpcOutcomes, n \in RandomValues, d \in MathRandomDigits}

\* fallback: generate a code, insert into video_tokens, log 'created'; on
\* tokenError the function returns success: false
SeedInsertToken(p, ok, code) ==
  /\ proc[p].pc = "seed_token"
  /\ IF ok /\ AcceptsTokenCode(code) /\ FreeTokenIds # {} /\ videos[proc[p].video].present
     THEN /\ video_tokens' = [video_tokens EXCEPT ![Min(FreeTokenIds)] =
                                 NewToken(proc[p].user, proc[p].video, now + SeedDaysValid,
                                          code)]
          /\ token_activity_logs' =
                InsertLog(token_activity_logs, LogEntry(Min(FreeTokenIds), "created"))
          /\ UNCHANGED videos
          /\ Returns(p, Issued("seed", Min(FreeTokenIds), "success", <<code>>))
     ELSE /\ videos' = SeedTokenFailure(videos, proc[p].video)
          /\ UNCHANGED <<video_tokens, token_activity_logs>>
          /\ Returns(p, Issued("seed", NULL, "error", <<code>>))
  /\ UNCHANGED <<now, profiles, auth_users, notifications, viewer_responses, rowLock, reqs, disclosed>>

\* ------------------------------------------ redemption (access_video_by_token)
\* (mutant) the row is read without FOR UPDATE: nothing to wait for
LockFreeNoLock(t) == TRUE

\* The row lock SELECT ... FOR UPDATE waits for.
LockFree(t) == rowLock[t] = 0

\* (mutant) the check of the expired status is missing
RedeemRejectionNoExpired(status) ==
  CASE status = "viewed"  -> MsgViewed
    [] status = "revoked" -> MsgRevoked
    [] OTHER              -> "none"

\* The status checks of access_video_by_token after the locked read.
RedeemRejection(status) ==
  CASE status = "expired" -> MsgExpired
    [] status = "viewed"  -> MsgViewed
    [] status = "revoked" -> MsgRevoked
    [] OTHER              -> "none"

\* SELECT * INTO v_token ... FOR UPDATE and the checks that follow.  The
\* transaction's NOW() is the clock at this step.  A rejection returns at once
\* and the transaction ends, which releases the lock.
RedeemLock(p, t) ==
  /\ CanStart(p)
  /\ LockFree(t)
  /\ reqs' = reqs + 1
  /\ LET row == video_tokens[t]
     IN  IF ~row.present
         THEN /\ Returns(p, Answer("redeem", t, now, MsgNotFound))
              /\ UNCHANGED rowLock
         ELSE IF RedeemRejection(row.status) # "none"
         THEN /\ Returns(p, Answer("redeem", t, now, RedeemRejection(row.status)))
              /\ UNCHANGED rowLock
         ELSE /\ Continues(p, [IdleProc EXCEPT !.op = "redeem", !.pc = "locked",
                                               !.token = t, !.txnow = now])
              /\ rowLock' = [rowLock EXCEPT ![t] = p]
  /\ UNCHANGED <<now, profiles, auth_users, notifications, videos, video_tokens, token_activity_logs, viewer_responses, disclosed>>

\* What the transaction of a redemption writes when it commits: UPDATE
\* video_tokens SET status = 'viewed' ... WHERE id = v_token.id and what the
\* triggers add to it, all private to the transaction until then.
RedeemEffects(p) ==
  LET t   == proc[p].token
      old == video_tokens[t]
      u   == UpdateVideoToken(t, old, [old EXCEPT !.status = "viewed"], proc[p].txnow)
  IN  [tokens |-> [video_tokens EXCEPT ![t] = u.row],
       videos |-> IF u.viewVideo
                  THEN MarkVideoViewed(videos, u.row.video_id, t, proc[p].txnow)
                  ELSE videos,
       logs   |-> InsertLogs(token_activity_logs, u.logs)]

\* RETURN jsonb_build_object('success', true, ...): the transaction commits.
RedeemCommit(p) ==
  /\ proc[p].pc = "locked"
  /\ video_tokens' = RedeemEffects(p).tokens
  /\ videos' = RedeemEffects(p).videos
  /\ token_activity_logs' = RedeemEffects(p).logs
  /\ rowLock' = [rowLock EXCEPT ![proc[p].token] = 0]
  /\ disclosed' = [disclosed EXCEPT ![proc[p].token] = @ + 1]
  /\ Returns(p, Answer("redeem", proc[p].token, proc[p].txnow, "success"))
  /\ UNCHANGED <<now, profiles, auth_users, notifications, viewer_responses, reqs>>

\* (mutant) the status write is committed on its own before the rest fails
RedeemAbortKeepsStatus(p) ==
  [tokens |-> RedeemEffects(p).tokens, videos |-> videos, logs |-> token_activity_logs]

\* What is left of a redemption whose transaction aborts: a plpgsql function
\* runs in one transaction, an error in any statement or trigger undoes all.
RedeemAbortEffects(p) ==
  [tokens |-> video_tokens, videos |-> videos, logs |-> token_activity_logs]

\* A statement of the procedure fails after the row was locked (the status
\* write, the trigger's video update or its log insert): supabase.rpc returns
\* an error and getVideoByToken throws.
RedeemFail(p) ==
  /\ proc[p].pc = "locked"
  /\ video_tokens' = RedeemAbortEffects(p).tokens
  /\ videos' = RedeemAbortEffects(p).videos
  /\ token_activity_logs' = RedeemAbortEffects(p).logs
  /\ rowLock' = [rowLock EXCEPT ![proc[p].token] = 0]
  /\ Returns(p, Answer("redeem", proc[p].token, proc[p].txnow, "error"))
  /\ UNCHANGED <<now, profiles, auth_users, notifications, viewer_responses, reqs, disclosed>>

\* ------------------------------------------------- assignVideoToToken
MsgNotTokenOwner == "You do not own this token"
MsgNotVideoOwner == "You do not own this video"

\* (mutant) the owner of the token is not compared with the caller
OwnsTokenUnchecked(row, u) == TRUE

\* String(tokenData.user_id).trim() !== String(userId).trim() is the refusal
\* 403 'You do not own this token'.
OwnsToken(row, u) == row.user_id = u

\* Reads the token (id, user_id, status) and checks the owner and the status.
AssignReadToken(p, t, v, u) ==
  /\ CanStart(p)
  /\ reqs' = reqs + 1
  /\ LET row == video_tokens[t]
     IN  IF ~row.present
         THEN Returns(p, Answer("assign", t, NULL, MsgNotFound))
         ELSE IF ~OwnsToken(row, u)
         THEN Returns(p, Answer("assign", t, NULL, MsgNotTokenOwner))
         ELSE IF row.status \notin AssignableStatuses
         THEN Returns(p, Answer("assign", t, NULL, "Token cannot be assigned"))
         ELSE Continues(p, [IdleProc EXCEPT !.op = "assign", !.pc = "assign_video",
                                            !.token = t, !.video = v, !.user = u])
  /\ UNCHANGED <<now, profiles, auth_users, notifications, videos, video_tokens, token_activity_logs, viewer_responses, rowLock,
                 disclosed>>

\* (mutant) the missing contact method of an interested response is let through
ContactValidationNoneRequired(input) ==
  IF input.interestLevel = "interested"
  THEN IF input.preferredContact = "email" /\ ~input.email
       THEN "Email is required when email is selected as preferred contact method"
       ELSE IF input.preferredContact = "phone" /\ ~input.phone
       THEN "Phone is required when phone is selected as preferred contact method"
       ELSE IF input.preferredContact = "instagram" /\ ~input.instagram
       THEN "Instagram is required when Instagram is selected as preferred contact method"
       ELSE "ok"
  ELSE "ok"

\* The checks on the contact fields, the same in the profile and in the video
\* branch: an interested response needs a contact method, and the one it
\* prefers; the other interest levels are not looked at.
ContactValidation(input) ==
  IF input.interestLevel = "interested"
  THEN IF ~input.email /\ ~input.phone /\ ~input.instagram
       THEN MsgContact
       ELSE IF input.preferredContact = "email" /\ ~input.email
       THEN "Email is required when email is selected as preferred contact method"
       ELSE IF input.preferredContact = "phone" /\ ~input.phone
       THEN "Phone is required when phone is selected as preferred contact method"
       ELSE IF input.preferredContact = "instagram" /\ ~input.instagram
       THEN "Instagram is required when Instagram is selected as preferred contact method"
       ELSE "ok"
  ELSE "ok"

\* (mutant) the validator has no custom check of the contact fields
validateResponseSubmissionNoCustom(body) == "ok"

\* The custom check of the request validator validateResponseSubmission, which
\* the route runs before the handler.
validateResponseSubmission(body) ==
  IF body.interestLevel = "interested"
  THEN IF ~body.email /\ ~body.phone /\ ~body.instagram
       THEN MsgContact
       ELSE IF body.preferredContact # "none"
       THEN IF body.preferredContact = "email" /\ ~body.email
            THEN "Email is required when email is selected as preferred contact method"
            ELSE IF body.preferredContact = "phone" /\ ~body.phone
            THEN "Phone is required when phone is selected as preferred contact method"
            ELSE IF body.preferredContact = "instagram" /\ ~body.instagram
            THEN "Instagram is required when Instagram is selected as preferred contact method"
            ELSE "ok"
       ELSE "ok"
  ELSE "ok"

\* (mutant) the owner of the video is not compared with the caller
OwnsVideoUnchecked(row, u) == TRUE

\* videoData.user_id !== userId is the refusal 'You do not own this video'.
OwnsVideo(row, u) == row.user_id = u

\* Reads the video (id, user_id) and checks its owner.
AssignReadVideo(p) ==
  /\ proc[p].pc = "assign_video"
  /\ LET row == videos[proc[p].video]
     IN  IF ~row.present
         THEN Returns(p, Answer("assign", proc[p].token, NULL, "Video not found"))
         ELSE IF ~OwnsVideo(row, proc[p].user)
         THEN Returns(p, Answer("assign", proc[p].token, NULL, MsgNotVideoOwner))
         ELSE Continues(p, [proc[p] EXCEPT !.pc = "assign_update"])
  /\ UNCHANGED <<now, profiles, auth_users, notifications, videos, video_tokens, token_activity_logs, viewer_responses,
                 rowLock, reqs, disclosed>>

\* The values assignVideoToToken's update() sets on the row it finds by id.
AssignedRow(old, v) == [old EXCEPT !.video_id = v, !.status = "active"]

\* UPDATE video_tokens SET video_id, private_label, private_notes, status =
\* 'active' WHERE id = tokenData.id: one statement, committed on its own, which
\* waits for a lock on the row and fires the BEFORE UPDATE triggers.  Then the
\* insert of the 'assigned' log entry, whose error is not looked at.
AssignUpdate(p) ==
  /\ proc[p].pc = "assign_update"
  /\ LockFree(proc[p].token)
  /\ LET t   == proc[p].token
         old == video_tokens[t]
         u   == UpdateVideoToken(t, old, AssignedRow(old, proc[p].video), now)
     IN  IF ~old.present
         THEN /\ UNCHANGED <<video_tokens, videos, token_activity_logs>>
              /\ Returns(p, Answer("assign", t, NULL, "Failed to assign video to token"))
         ELSE /\ video_tokens' = [video_tokens EXCEPT ![t] = u.row]
              /\ videos' = IF u.viewVideo
                           THEN MarkVideoViewed(videos, u.row.video_id, t, now)
                           ELSE videos
              /\ token_activity_logs' =
                    InsertLog(InsertLogs(token_activity_logs, u.logs), LogEntry(t, "assigned"))
              /\ Returns(p, Answer("assign", t, NULL, "success"))
  /\ UNCHANGED <<now, profiles, auth_users, notifications, viewer_responses, rowLock, reqs, disclosed>>

\* ------------------------------------ submitTokenResponse (video token)
\* Reads the token (id, user_id, video_id, status) and checks the status.
SubmitReadToken(p, t, input) ==
  /\ CanStart(p)
  /\ reqs' = reqs + 1
  /\ LET row == video_tokens[t]
     IN  IF ~row.present
         THEN Returns(p, Answer("submit", t, NULL, MsgNotFound))
         ELSE IF row.status \notin RespondableStatuses
         THEN Returns(p, Answer("submit", t, NULL, "Token is " \o row.status))
         ELSE Continues(p, [IdleProc EXCEPT !.op = "submit", !.pc = "submit_check",
                                            !.token = t, !.input = input])
  /\ UNCHANGED <<now, profiles, auth_users, notifications, videos, video_tokens, token_activity_logs, viewer_responses, rowLock,
                 disclosed>>

ResponsesOf(t) == {i \in 1..Len(viewer_responses) : viewer_responses[i].video_token_id = t}

\* Selects an existing response of the token, then validates the contact fields.
SubmitCheckExisting(p) ==
  /\ proc[p].pc = "submit_check"
  /\ IF ResponsesOf(proc[p].token) # {}
     THEN Returns(p, Answer("submit", proc[p].token, NULL, MsgDuplicate))
     ELSE IF ContactValidation(proc[p].input) # "ok"
     THEN Returns(p, Answer("submit", proc[p].token, NULL, ContactValidation(proc[p].input)))
     ELSE Continues(p, [proc[p] EXCEPT !.pc = "submit_insert"])
  /\ UNCHANGED <<now, profiles, auth_users, notifications, videos, video_tokens, token_activity_logs, viewer_responses,
                 rowLock, reqs, disclosed>>

\* The viewer_responses row built from responseData: email || null and so on.
ViewerResponse(kind, prof, t, input) ==
  [response_type |-> kind, profile_id |-> prof, video_token_id |-> t,
   interest_level |-> input.interestLevel,
   viewer_email |-> input.email, viewer_phone |-> input.phone,
   viewer_instagram |-> input.instagram,
   preferred_contact_method |-> input.preferredContact]

\* (mutant) the insert of the 'responded' entry is missing
RespondedLogsNone(kind, t) == <<>>

\* The activity-log entries submitTokenResponse writes after the insert of the
\* response: 'responded' in the video branch, nothing in the profile branch.
RespondedLogs(kind, t) ==
  IF kind = "video" THEN <<LogEntry(t, "responded")>> ELSE <<>>

Notification(u, kind) == [user_id |-> u, type |-> kind]

\* await supabase.from('notifications').insert(...): the error the insert
\* returns is not looked at, a failed insert leaves the table as it was.
InsertNotification(ns, n, ok) == IF ok THEN Append(ns, n) ELSE ns

\* (mutant) the failed notification takes the stored response with it
AfterNotificationFailureUndo(rows) == SubSeq(rows, 1, Len(rows) - 1)

\* What is left in viewer_responses when the notification insert has failed:
\* the row was committed by its own statement and nothing removes it.
AfterNotificationFailure(rows) == rows

\* Inserts the viewer_responses row (the foreign key wants the token row), then
\* the 'responded' log entry, then the notification for the owner of the token.
SubmitInsert(p, notifOk) ==
  /\ proc[p].pc = "submit_insert"
  /\ LET t == proc[p].token
         rows == Append(viewer_responses, ViewerResponse("video", "none", t, proc[p].input))
     IN  IF video_tokens[t].present
         THEN /\ viewer_responses' = IF notifOk THEN rows ELSE AfterNotificationFailure(rows)
              /\ token_activity_logs' = InsertLogs(token_activity_logs, RespondedLogs("video", t))
              /\ notifications' = InsertNotification(notifications,
                     Notification(video_tokens[t].user_id, "interested_response"), notifOk)
              /\ Returns(p, Answer("submit", t, NULL, "success"))
         ELSE /\ UNCHANGED <<viewer_responses, token_activity_logs, notifications>>
              /\ Returns(p, Answer("submit", t, NULL, "Failed to submit response"))
  /\ UNCHANGED <<now, profiles, auth_users, videos, video_tokens, rowLock, reqs, disclosed>>

\* ------------------------------------------ POST /tokens/:tokenId/response
MsgValidation == "Validation failed"

\* validateRequest: with errors of the validators it answers 400 'Validation
\* failed' with the errors, each with its message and the value it is about
\* (the body, for the custom check), and the handler is not called.
ValidationFailed(t, msg, body) ==
  [Answer("submit", t, NULL, MsgValidation)
     EXCEPT !.data = <<[message |-> msg, value |-> body]>>, !.logged = TRUE]

\* router.post('/:tokenId/response', validateTokenId,
\* validateResponseSubmission, validateRequest, submitTokenResponse) for the
\* code of video token t and a body whose name and interest level are given.
PostResponse(p, t, body) ==
  IF validateResponseSubmission(body) = "ok"
  THEN SubmitReadToken(p, t, body)
  ELSE /\ CanStart(p)
       /\ reqs' = reqs + 1
       /\ Returns(p, ValidationFailed(t, validateResponseSubmission(body), body))
       /\ UNCHANGED <<now, profiles, auth_users, notifications, videos, video_tokens,
                      token_activity_logs, viewer_responses, rowLock, disclosed>>

\* ------------------------------------------------- the router of /tokens
TokenIdMinLength == 6
TokenIdMaxLength == 24

\* validateTokenId: the code matches /^(PRO|VID)-[a-zA-Z0-9]{6,24}$/.  The
\* characters the generators make (hex digits, base-36 digits, upper-cased or
\* not) are all in the class of the pattern.
MatchesTokenFormat(code) ==
  /\ code.prefix \in {"PRO", "VID"}
  /\ code.len >= TokenIdMinLength
  /\ code.len <= TokenIdMaxLength

\* A segment of a request path: a word, or a token code.
Word(w) == [word |-> w, code |-> NoCode]
CodeSegment(code) == [word |-> "", code |-> code]

\* A segment of a route path: a word, or the parameter :tokenId.
Fixed(w) == [param |-> FALSE, word |-> w]
TokenIdParam == [param |-> TRUE, word |-> ""]

Route(method, path, chain, handler) ==
  [method |-> method, path |-> path, chain |-> chain, handler |-> handler]

\* The routes of tokenRoute.js in the order of their registration, each with
\* the middlewares before its handler that can end the request.
Routes ==
  << Route("GET", <<TokenIdParam>>, <<"validateTokenId">>, "dynamicTokenHandler"),
     Route("GET", <<TokenIdParam, Fixed("video")>>, <<"validateTokenId">>, "getVideoByToken"),
     Route("POST", <<TokenIdParam, Fixed("response")>>, <<"validateTokenId">>,
           "submitTokenResponse"),
     Route("GET", <<TokenIdParam, Fixed("response"), Fixed("check")>>, <<"validateTokenId">>,
           "checkTokenResponse"),
     Route("GET", <<>>, <<"authenticate">>, "getUserTokens"),
     Route("GET", <<Fixed("metrics")>>, <<"authenticate">>, "getTokenMetrics"),
     Route("POST", <<Fixed("generate")>>, <<"authenticate">>, "generateTokens"),
     Route("POST", <<Fixed("assign")>>, <<"authenticate">>, "assignVideoToToken"),
     Route("POST", <<Fixed("custom-video")>>, <<"authenticate">>, "createCustomVideoAndToken"),
     Route("GET", <<Fixed("preview"), TokenIdParam>>, <<"authenticate", "validateTokenId">>,
           "getTokenPreview") >>

\* A fixed segment of a route matches the same word, the parameter any segment.
SegmentMatches(pat, seg) == pat.param \/ (seg.code = NoCode /\ seg.word = pat.word)

\* Express matches the method and the whole path of a route; a parameter
\* matches any one segment.
RouteMatches(r, method, path) ==
  /\ r.method = method
  /\ Len(r.path) = Len(path)
  /\ \A k \in 1..Len(path) : SegmentMatches(r.path[k], path[k])

\* req.params.tokenId of a request the route r matches
TokenIdOf(r, path) ==
  LET ks == {k \in 1..Len(path) : r.path[k].param}
  IN  IF ks = {} THEN Word("") ELSE path[CHOOSE k \in ks : TRUE]

\* The routes that match a request
MatchingRoutes(method, path) ==
  {k \in 1..Len(Routes) : RouteMatches(Routes[k], method, path)}

\* What the middleware mw of route r does with the request: "next", or the
\* answer it ends the request with.
Middleware(mw, r, path, authed) ==
  IF mw = "authenticate"
  THEN IF authed THEN "next" ELSE "Unauthorized"
  ELSE IF TokenIdOf(r, path).code # NoCode /\ MatchesTokenFormat(TokenIdOf(r, path).code)
       THEN "next"
       ELSE MsgValidation

\* The router calls the first route that matches, in the order of the
\* registration; its middlewares run in their order, and the first that does
\* not call next() has answered the request: no later route is tried.
Dispatch(method, path, authed) ==
  IF MatchingRoutes(method, path) = {}
  THEN "Not found"
  ELSE LET r     == Routes[Min(MatchingRoutes(method, path))]
           ended == {k \in 1..Len(r.chain) : Middleware(r.chain[k], r, path, authed) # "next"}
       IN  IF ended = {} THEN r.handler
           ELSE Middleware(r.chain[Min(ended)], r, path, authed)

\* A request to the router of /tokens, up to the handler that is called.
HttpRequest(p, method, path, authed) ==
  /\ proc[p].pc = "idle"
  /\ Returns(p, [Answer("route", NULL, NULL, Dispatch(method, path, authed))
                   EXCEPT !.data = <<[method |-> method, path |-> path, authed |-> authed]>>])
  /\ UNCHANGED <<now, profiles, auth_users, notifications, videos, video_tokens,
                 token_activity_logs, viewer_responses, rowLock, reqs, disclosed>>

\* ------------------------------------ submitTokenResponse (profile token)
ProfileOf(tok) == IF tok \in Profiles THEN tok ELSE "none"

\* Selects the profile of the PRO- token.
SubmitProfileRead(p, tok, input) ==
  /\ CanStart(p)
  /\ reqs' = reqs + 1
  /\ IF ProfileOf(tok) = "none"
     THEN Returns(p, Answer("submit_profile", NULL, NULL, "Profile not found for this token"))
     ELSE Continues(p, [IdleProc EXCEPT !.op = "submit_profile", !.pc = "profile_insert",
                                        !.user = ProfileOf(tok), !.input = input])
  /\ UNCHANGED <<now, profiles, auth_users, notifications, videos, video_tokens, token_activity_logs,
                 viewer_responses, rowLock, disclosed>>

\* Validates the contact fields, inserts the viewer_responses row of the
\* profile, then the notification for the profile's owner; no activity log.
SubmitProfileInsert(p, notifOk) ==
  /\ proc[p].pc = "profile_insert"
  /\ LET rows == Append(viewer_responses,
                        ViewerResponse("profile", proc[p].user, NULL, proc[p].input))
     IN  IF ContactValidation(proc[p].input) # "ok"
         THEN /\ UNCHANGED <<viewer_responses, token_activity_logs, notifications>>
              /\ Returns(p, Answer("submit_profile", NULL, NULL,
                                   ContactValidation(proc[p].input)))
         ELSE /\ viewer_responses' = IF notifOk THEN rows ELSE AfterNotificationFailure(rows)
              /\ token_activity_logs' =
                    InsertLogs(token_activity_logs, RespondedLogs("profile", NULL))
              /\ notifications' = InsertNotification(notifications,
                     Notification(proc[p].user, "interested_response"), notifOk)
              /\ Returns(p, Answer("submit_profile", NULL, NULL, "success"))
  /\ UNCHANGED <<now, profiles, auth_users, videos, video_tokens, rowLock, reqs, disclosed>>

\* ------------------------------------- controller createCustomVideoAndToken
\* The daysValid of the request body: absent, or the integer it is parsed to.
RawDaysValid ==
  { [given |-> FALSE, value |-> 0] } \cup
  { [given |-> TRUE, value |-> d] : d \in {0, 1, MaxDaysValid + 1} }

\* parseInt(daysValid) || 3: NaN (no daysValid) and 0 give the default.
DaysValidOrDefault(raw) ==
  IF ~raw.given \/ raw.value = 0 THEN DefaultDaysValid ELSE raw.value

createCustomVideoAndToken(p, u, raw, ok, n) ==
  CreateCustomVideoWithToken(p, u, DaysValidOrDefault(raw), ok, n)

\* ------------------------------------------------------- generateTokens
\* The record generateTokens inserts: the code of the RPC generate_video_token,
\* no video_id.
GeneratedToken(u, n) ==
  [NoToken EXCEPT !.present = TRUE, !.token_code = generate_video_token(n),
                  !.status = "active", !.user_id = u,
                  !.expires_at = now + GenerateDaysValid]

\* video_id UUID NOT NULL
AcceptsTokenRow(row) == row.video_id # NULL

\* generateTokens: the insert of the records; insertError is 'Failed to store
\* tokens'.  No activity log is written on either path.
GenerateTokens(p, u, n) ==
  /\ CanStart(p)
  /\ reqs' = reqs + 1
  /\ IF /\ FreeTokenIds # {}
        /\ AcceptsTokenRow(GeneratedToken(u, n))
        /\ AcceptsTokenCode(generate_video_token(n))
     THEN /\ video_tokens' = [video_tokens EXCEPT ![Min(FreeTokenIds)] = GeneratedToken(u, n)]
          /\ Returns(p, Issued("generate", Min(FreeTokenIds), "success",
                                <<generate_video_token(n)>>))
     ELSE /\ UNCHANGED video_tokens
          /\ Returns(p, Issued("generate", NULL, "Failed to store tokens",
                                <<generate_video_token(n)>>))
  /\ UNCHANGED <<now, profiles, auth_users, notifications, videos, token_activity_logs, viewer_responses,
                 rowLock, disclosed>>

\* ----------------------------------------------------------- deleteVideo
TokensOfVideo(v) ==
  {t \in TokenIds : video_tokens[t].present /\ video_tokens[t].video_id = v}

\* ON DELETE CASCADE from video_tokens to token_activity_logs / viewer_responses
KeepsRow(row, gone) == row.video_token_id \notin gone
CascadeRows(rows, gone) == SelectSeq(rows, LAMBDA r : KeepsRow(r, gone))

\* deleteVideo: selects the video of the user, then deletes the row; the
\* delete cascades to the tokens of the video and from them to their activity
\* log entries and responses, and waits for the locks on the token rows.
DeleteVideo(p, u, v) ==
  /\ CanStart(p)
  /\ \A t \in TokensOfVideo(v) : LockFree(t)
  /\ reqs' = reqs + 1
  /\ IF ~videos[v].present \/ videos[v].user_id # u
     THEN /\ UNCHANGED <<videos, video_tokens, token_activity_logs, viewer_responses>>
          /\ Returns(p, Answer("delete", NULL, NULL,
                               "Video not found or does not belong to user"))
     ELSE /\ videos' = [videos EXCEPT ![v] = DeletedVideo]
          /\ video_tokens' = [t \in TokenIds |->
                                IF t \in TokensOfVideo(v) THEN DeletedToken
                                ELSE video_tokens[t]]
          /\ token_activity_logs' = CascadeRows(token_activity_logs, TokensOfVideo(v))
          /\ viewer_responses' = CascadeRows(viewer_responses, TokensOfVideo(v))
          /\ Returns(p, Answer("delete", NULL, NULL, "success"))
  /\ UNCHANGED <<now, profiles, auth_users, notifications, rowLock, disclosed>>

\* ----------------------------------------------------------- uploadVideo
MsgUploadFailed == "Failed to upload video file"
MsgRecordFailed == "Failed to create video record"

\* .from('videos').select('id, storage_path').eq('user_id', userId)
\* .eq('video_type', 'default').eq('is_active', true)
ActiveDefaultVideos(u) ==
  {v \in VideoIds : /\ videos[v].present
                    /\ videos[v].user_id = u
                    /\ videos[v].video_type = "default"
                    /\ videos[v].is_active}

\* uploadVideo of a default video: finds the existing default videos of the
\* user; a findError is logged as a warning and the upload goes on with none.
UploadFind(p, u, findOk) ==
  /\ CanStart(p)
  /\ FreeVideoIds # {}
  /\ reqs' = reqs + 1
  /\ LET existing == IF findOk THEN ActiveDefaultVideos(u) ELSE {}
     IN  Continues(p, [IdleProc EXCEPT !.op = "upload", !.user = u,
                                       !.found = existing, !.todo = existing,
                                       !.pc = IF existing = {} THEN "upload_insert"
                                              ELSE "upload_delete"])
  /\ UNCHANGED <<now, profiles, auth_users, videos, video_tokens, token_activity_logs,
                 viewer_responses, rowLock, notifications, disclosed>>

\* uploadVideo: for the next existing default video, removes the file from
\* the storage and deletes the row by its id, before the new file is uploaded;
\* a deleteError is logged as a warning.  The delete cascades as in deleteVideo
\* and waits for the locks on the token rows.
UploadDeleteExisting(p, ok) ==
  /\ proc[p].pc = "upload_delete"
  /\ LET v    == Min(proc[p].todo)
         rest == proc[p].todo \ {v}
     IN  /\ \A t \in TokensOfVideo(v) : LockFree(t)
         /\ IF ok /\ videos[v].present
            THEN /\ videos' = [videos EXCEPT ![v] = DeletedVideo]
                 /\ video_tokens' = [t \in TokenIds |->
                                       IF t \in TokensOfVideo(v) THEN DeletedToken
                                       ELSE video_tokens[t]]
                 /\ token_activity_logs' = CascadeRows(token_activity_logs, TokensOfVideo(v))
                 /\ viewer_responses' = CascadeRows(viewer_responses, TokensOfVideo(v))
            ELSE UNCHANGED <<videos, video_tokens, token_activity_logs, viewer_responses>>
         /\ Continues(p, [proc[p] EXCEPT !.todo = rest,
                                          !.pc = IF rest = {} THEN "upload_insert"
                                                 ELSE "upload_delete"])
  /\ UNCHANGED <<now, profiles, auth_users, rowLock, reqs, notifications, disclosed>>

\* uploadVideo: uploads the file to the storage (uploadError throws), then
\* inserts the videos row (insertError removes the uploaded file and throws).
UploadInsert(p, uploadOk, insertOk) ==
  /\ proc[p].pc = "upload_insert"
  /\ IF ~uploadOk
     THEN /\ UNCHANGED videos
          /\ Returns(p, Answer("upload", NULL, NULL, MsgUploadFailed))
     ELSE IF ~insertOk \/ FreeVideoIds = {}
     THEN /\ UNCHANGED videos
          /\ Returns(p, Answer("upload", NULL, NULL, MsgRecordFailed))
     ELSE /\ videos' = [videos EXCEPT ![Min(FreeVideoIds)] = NewVideo(proc[p].user, "default")]
          /\ Returns(p, Answer("upload", NULL, NULL, "success"))
  /\ UNCHANGED <<now, profiles, auth_users, video_tokens, token_activity_logs,
                 viewer_responses, rowLock, reqs, notifications, disclosed>>

\* ------------------------------------------------------ getProfileByToken
\* (mutant) the profile is returned without the insert of the log entry
ProfileViewLogsNone(prof) == <<>>

\* INSERT INTO token_activity_logs ('profile_token', v_profile_id, 'viewed')
ProfileViewLogs(prof) ==
  << [log_type |-> "profile_token", profile_id |-> prof,
      video_token_id |-> NULL, activity_type |-> "viewed"] >>

\* getProfileByToken: the procedure access_profile_by_token finds the profile
\* of the token, reads its photos, links and default video, logs the view and
\* returns; the handler then selects the video_tokens row with that code, of
\* which there is none, and returns the profile with tokenStatus active.
GetProfileByToken(p, tok) ==
  /\ CanStart(p)
  /\ reqs' = reqs + 1
  /\ IF ProfileOf(tok) = "none"
     THEN /\ UNCHANGED token_activity_logs
          /\ Returns(p, Answer("profile", NULL, NULL, "Profile not found"))
     ELSE /\ token_activity_logs' =
                InsertLogs(token_activity_logs, ProfileViewLogs(ProfileOf(tok)))
          /\ Returns(p, Answer("profile", NULL, NULL, "success"))
  /\ UNCHANGED <<now, profiles, auth_users, notifications, videos, video_tokens, viewer_responses,
                 rowLock, disclosed>>

\* ------------------------------------------------------ get_response_funnel
\* (mutant) every 'viewed' entry of the log is counted as a profile view
ProfileViewEntriesAnyType(u) ==
  {i \in 1..Len(token_activity_logs) :
     /\ token_activity_logs[i].activity_type = "viewed"
     /\ \/ token_activity_logs[i].profile_id = u
        \/ /\ token_activity_logs[i].video_token_id \in TokenIds
           /\ video_tokens[token_activity_logs[i].video_token_id].user_id = u}

\* FROM token_activity_logs WHERE profile_id = p_user_id
\* AND log_type = 'profile_token' AND activity_type = 'viewed'
ProfileViewEntries(u) ==
  {i \in 1..Len(token_activity_logs) :
     /\ token_activity_logs[i].profile_id = u
     /\ token_activity_logs[i].log_type = "profile_token"
     /\ token_activity_logs[i].activity_type = "viewed"}

\* FROM video_tokens WHERE user_id = p_user_id AND status = 'viewed'
ViewedTokens(u) ==
  {t \in TokenIds : video_tokens[t].user_id = u /\ video_tokens[t].status = "viewed"}

\* FROM viewer_responses WHERE (profile_id = p_user_id) OR (video_token_id IN
\* (SELECT id FROM video_tokens WHERE user_id = p_user_id))
ResponsesTo(u) ==
  {i \in 1..Len(viewer_responses) :
     \/ viewer_responses[i].profile_id = u
     \/ viewer_responses[i].video_token_id \in
          {t \in TokenIds : video_tokens[t].user_id = u}}

\* COUNT(*) FILTER (WHERE interest_level = 'interested')
InterestedResponsesTo(u) ==
  {i \in ResponsesTo(u) : viewer_responses[i].interest_level = "interested"}

\* RETURN profile_views || ' profile views / ' || video_views || ' video views
\* / ' || total_responses || ' responses / ' || interested_responses ||
\* ' interested': the text, as the sequence of its numbers and words.
FunnelText(profile_views, video_views, total_responses, interested_responses) ==
  << profile_views, " profile views / ", video_views, " video views / ",
     total_responses, " responses / ", interested_responses, " interested" >>

get_response_funnel(u) ==
  FunnelText(Cardinality(ProfileViewEntries(u)), Cardinality(ViewedTokens(u)),
             Cardinality(ResponsesTo(u)), Cardinality(InterestedResponsesTo(u)))

\* authService.getProfile: reads the auth user and the profile (404 when
\* there is none), the photos, links and default video, and returns them with
\* responseStats, the data of the RPC get_response_funnel: here the id of the
\* user and responseStats.  It writes nothing.
GetProfile(p, u) ==
  /\ proc[p].pc = "idle"
  /\ IF u \in auth_users /\ profiles[u].present
     THEN response' = [Answer("funnel", NULL, NULL, "success")
                         EXCEPT !.data = <<u, get_response_funnel(u)>>]
     ELSE response' = Answer("funnel", NULL, NULL, "Profile not found")
  /\ UNCHANGED <<now, profiles, auth_users, videos, video_tokens, token_activity_logs,
                 viewer_responses, rowLock, proc, reqs, notifications, disclosed>>

\* ------------------------------------------------------------- accounts
\* profile_token ... UNIQUE NOT NULL, id UUID PRIMARY KEY: the insert of the
\* profile of u with the token code is refused when the code is null, when
\* another profile holds it, or when u has a profile.  (The width of the
\* column is not modelled.)
AcceptsProfile(u, code) ==
  /\ code # NoCode
  /\ ~profiles[u].present
  /\ \A o \in AuthUsers : profiles[o].profile_token # code

ProfileLogEntry(u, kind) == [log_type |-> "profile_token", profile_id |-> u,
                             video_token_id |-> NULL, activity_type |-> kind]

\* The trigger on_auth_user_created, AFTER INSERT ON auth.users: the function
\* handle_new_user inserts the profile with generate_profile_token(); an error
\* in it (ok is FALSE, or the insert is refused) is caught by EXCEPTION WHEN
\* OTHERS, which undoes what the function wrote and keeps the auth user.
handle_new_user(ps, u, ok, n) ==
  IF ok /\ AcceptsProfile(u, generate_profile_token(n))
  THEN [ps EXCEPT ![u] = NewProfile(generate_profile_token(n))]
  ELSE ps

\* register: supabase.auth.signUp inserts the auth user, which fires the
\* trigger; the handler then waits a second.
SignUp(p, u, ok, n) ==
  /\ CanStart(p)
  /\ u \notin auth_users
  /\ reqs' = reqs + 1
  /\ auth_users' = auth_users \cup {u}
  /\ profiles' = handle_new_user(profiles, u, ok, n)
  /\ Continues(p, [IdleProc EXCEPT !.op = "register", !.pc = "register_check", !.user = u])
  /\ UNCHANGED <<now, videos, video_tokens, token_activity_logs, viewer_responses,
                 rowLock, notifications, disclosed>>

\* register: selects the profile of the new user with .single(); profileError
\* (no row, or the select failed: readOk is FALSE) sends it to the manual
\* creation, otherwise the registration is done.
RegisterCheckProfile(p, readOk) ==
  /\ proc[p].pc = "register_check"
  /\ IF readOk /\ profiles[proc[p].user].present
     THEN Returns(p, Answer("register", NULL, NULL, "success"))
     ELSE Continues(p, [proc[p] EXCEPT !.pc = "register_create"])
  /\ UNCHANGED <<now, profiles, auth_users, videos, video_tokens, token_activity_logs,
                 viewer_responses, rowLock, reqs, notifications, disclosed>>

\* The token of register's manual creation: the data of the RPC
\* generate_profile_token, and when the RPC returns an error or throws
\* `PRO-${Math.random().toString(36).substring(2, 15)}`.
RegisterProfileToken(rpc, n, digits) ==
  IF rpc = "data"
  THEN generate_profile_token(n)
  ELSE [prefix |-> "PRO", len |-> RandomSuffix(digits, 13), n |-> n]

RegisterProfileTokens ==
  {RegisterProfileToken(rpc, n, d) : rpc \in RpcOutcomes, n \in RandomValues,
                                     d \in MathRandomDigits}

\* (mutant) an upsert: the row of a profile that exists is written again
InsertProfileUpsert(u, code) ==
  IF code # NoCode /\ \A o \in AuthUsers \ {u} : profiles[o].profile_token # code
  THEN [profiles EXCEPT ![u] = NewProfile(code)]
  ELSE profiles

\* .from('profiles').insert({id, profile_token, ...}): the table after the
\* insert, which is the table before it when the insert is refused.
InsertProfile(u, code) ==
  IF AcceptsProfile(u, code)
  THEN [profiles EXCEPT ![u] = NewProfile(code)]
  ELSE profiles

\* register: inserts the profile with the token; on createError it deletes the
\* auth user, which takes the profile of that id with it (ON DELETE CASCADE),
\* and throws; otherwise it logs the creation of the profile token.
RegisterCreateProfile(p, code, ok) ==
  /\ proc[p].pc = "register_create"
  /\ LET u == proc[p].user
     IN  IF ok /\ InsertProfile(u, code) # profiles
         THEN /\ profiles' = InsertProfile(u, code)
              /\ token_activity_logs' =
                    InsertLog(token_activity_logs, ProfileLogEntry(u, "created"))
              /\ UNCHANGED auth_users
              /\ Returns(p, Issued("register", NULL, "success", <<code>>))
         ELSE /\ profiles' = [profiles EXCEPT ![u] = NoProfile]
              /\ auth_users' = auth_users \ {u}
              /\ UNCHANGED token_activity_logs
              /\ Returns(p, Issued("register", NULL, "Failed to create user profile",
                                    <<code>>))
  /\ UNCHANGED <<now, videos, video_tokens, viewer_responses, rowLock, reqs,
                 notifications, disclosed>>

\* authenticate: after getUser(token) has given the user, selects the profile
\* with .single(); profileError (no row, or the select failed) sends it to the
\* creation of a default profile.
AuthenticateRead(p, u, readOk) ==
  /\ CanStart(p)
  /\ u \in auth_users
  /\ reqs' = reqs + 1
  /\ IF readOk /\ profiles[u].present
     THEN Returns(p, Answer("authenticate", NULL, NULL, "success"))
     ELSE Continues(p, [IdleProc EXCEPT !.op = "authenticate", !.pc = "auth_create",
                                        !.user = u])
  /\ UNCHANGED <<now, profiles, auth_users, videos, video_tokens, token_activity_logs,
                 viewer_responses, rowLock, notifications, disclosed>>

\* `PRO-${Math.random().toString(36).substr(2, 15).toUpperCase()}`
AuthenticateProfileToken(n, digits) ==
  [prefix |-> "PRO", len |-> RandomSuffix(digits, 15), n |-> n]

\* authenticate: inserts the default profile with the token it makes; on
\* createError it throws 'Failed to create user profile'.
AuthenticateCreate(p, n, digits, ok) ==
  /\ proc[p].pc = "auth_create"
  /\ LET u == proc[p].user
         code == AuthenticateProfileToken(n, digits)
     IN  IF ok /\ u \in auth_users /\ InsertProfile(u, code) # profiles
         THEN /\ profiles' = InsertProfile(u, code)
              /\ Returns(p, Issued("authenticate", NULL, "success", <<code>>))
         ELSE /\ UNCHANGED profiles
              /\ Returns(p, Issued("authenticate", NULL, "Failed to create user profile",
                                    <<code>>))
  /\ UNCHANGED <<now, auth_users, videos, video_tokens, token_activity_logs,
                 viewer_responses, rowLock, reqs, notifications, disclosed>>

\* ------------------------------------------------------ specifications
Next ==
  \/ Tick
  \/ \E u \in Users, d \in DaysValidInputs, ok \in BOOLEAN, n \in RandomValues :
        CreateCustomVideoWithToken(Owner, u, d, ok, n)
  \/ \E u \in Users, ok \in BOOLEAN, n \in RandomValues : SeedRpc(Owner, u, ok, n)
  \/ \E ok \in BOOLEAN : SeedInsertVideo(Owner, ok)
  \/ \E ok \in BOOLEAN, n \in RandomValues :
        SeedInsertToken(Owner, ok, generate_video_token(n))
  \/ \E t \in TokenIds, v \in VideoIds, u \in Users : AssignReadToken(Owner, t, v, u)
  \/ AssignReadVideo(Owner)
  \/ AssignUpdate(Owner)
  \/ \E t \in TokenIds : RedeemLock(Viewer, t)
  \/ RedeemCommit(Viewer)
  \/ RedeemFail(Viewer)
  \/ \E t \in TokenIds, input \in ResponseInputs : SubmitReadToken(Viewer, t, input)
  \/ SubmitCheckExisting(Viewer)
  \/ SubmitInsert(Viewer, TRUE)

\* One session of authenticated requests (creation, assignment) and one
\* anonymous viewer, each issuing one request after the other; the requests of
\* the two interleave statement by statement.
Spec == Init /\ [][Next]_vars

\* Anonymous viewers alone: redemptions and response submissions, up to
\* MaxProcs of them running at once.
NextViewers ==
  \/ Tick
  \/ \E p \in Procs, t \in TokenIds : RedeemLock(p, t)
  \/ \E p \in Procs : RedeemCommit(p)
  \/ \E p \in Procs : RedeemFail(p)
  \/ \E p \in Procs, t \in TokenIds, input \in ResponseInputs : SubmitReadToken(p, t, input)
  \/ \E p \in Procs : SubmitCheckExisting(p)
  \/ \E p \in Procs : SubmitInsert(p, TRUE)

SpecViewers == Init /\ [][NextViewers]_vars

\* One anonymous viewer sending responses of every kind to video tokens and
\* to profiles, with a notification store that may refuse the insert; new
\* requests stop once MaxStored responses are stored.
NextResponses ==
  \/ \E t \in TokenIds, input \in AllResponseInputs :
        Len(viewer_responses) < MaxStored /\ SubmitReadToken(Viewer, t, input)
  \/ SubmitCheckExisting(Viewer)
  \/ \E ok \in BOOLEAN : SubmitInsert(Viewer, ok)
  \/ \E tok \in ProfileTokens, input \in AllResponseInputs :
        Len(viewer_responses) < MaxStored /\ SubmitProfileRead(Viewer, tok, input)
  \/ \E ok \in BOOLEAN : SubmitProfileInsert(Viewer, ok)

SpecResponses == Init /\ [][NextResponses]_vars

\* The owner's requests on videos and tokens (creation through the
\* controller, generateTokens, assignVideoToToken, deleteVideo) and a viewer
\* who redeems tokens and reads profiles.
NextLifecycle ==
  \/ Tick
  \/ \E u \in Users, raw \in RawDaysValid, ok \in BOOLEAN, n \in RandomValues :
        createCustomVideoAndToken(Owner, u, raw, ok, n)
  \/ \E u \in Users, n \in RandomValues : GenerateTokens(Owner, u, n)
  \/ \E t \in TokenIds, v \in VideoIds, u \in Users : AssignReadToken(Owner, t, v, u)
  \/ AssignReadVideo(Owner)
  \/ AssignUpdate(Owner)
  \/ \E u \in Users, v \in VideoIds : DeleteVideo(Owner, u, v)
  \/ \E t \in TokenIds : RedeemLock(Viewer, t)
  \/ RedeemCommit(Viewer)
  \/ RedeemFail(Viewer)
  \/ \E tok \in ProfileTokens : GetProfileByToken(Viewer, tok)

SpecLifecycle == Init /\ [][NextLifecycle]_vars

\* The accounts u3 and u4 sign up through register and come to authenticate,
\* in two sessions at once.
NextAccounts ==
  \/ \E p \in {Owner, Viewer}, u \in AuthUsers, ok \in BOOLEAN, n \in RandomValues :
        SignUp(p, u, ok, n)
  \/ \E p \in {Owner, Viewer}, readOk \in BOOLEAN : RegisterCheckProfile(p, readOk)
  \/ \E p \in {Owner, Viewer}, code \in RegisterProfileTokens, ok \in BOOLEAN :
        RegisterCreateProfile(p, code, ok)
  \/ \E p \in {Owner, Viewer}, u \in AuthUsers, readOk \in BOOLEAN :
        AuthenticateRead(p, u, readOk)
  \/ \E p \in {Owner, Viewer}, n \in RandomValues, d \in MathRandomDigits, ok \in BOOLEAN :
        AuthenticateCreate(p, n, d, ok)

SpecAccounts == Init /\ [][NextAccounts]_vars

\* Issuance of video tokens on every path: the controller, generateTokens and
\* the seeder with its fallback.
NextIssuance ==
  \/ \E u \in Users, raw \in RawDaysValid, ok \in BOOLEAN, n \in RandomValues :
        createCustomVideoAndToken(Owner, u, raw, ok, n)
  \/ \E u \in Users, n \in RandomValues : GenerateTokens(Owner, u, n)
  \/ \E u \in Users, ok \in BOOLEAN, n \in RandomValues : SeedRpc(Owner, u, ok, n)
  \/ \E ok \in BOOLEAN : SeedInsertVideo(Owner, ok)
  \/ \E ok \in BOOLEAN, code \in SeedTokenCodes : SeedInsertToken(Owner, ok, code)

SpecIssuance == Init /\ [][NextIssuance]_vars

\* The database after u1's profile was read PriorViews times and token 1 was
\* redeemed at time 0: the state Init leads to by that many getProfileByToken
\* and one getVideoByToken, with the count of requests started afresh.
PriorViews == {0, 2}

InitFunnel ==
  /\ now = 0
  /\ videos = [v \in VideoIds |->
                 CASE v = 1 -> [NewVideo("u1", "custom") EXCEPT !.is_viewed = TRUE,
                                                                !.first_viewed_at = 0,
                                                                !.viewer_token_id = 1]
                   [] v = 2 -> NewVideo("u1", "custom")
                   [] OTHER -> NoVideo]
  /\ video_tokens = [t \in TokenIds |->
                       CASE t = 1 -> [NewToken("u1", 1, 0, generate_video_token(1))
                                        EXCEPT !.status = "viewed", !.viewed_at = 0]
                         [] t = 2 -> NewToken("u1", 2, DefaultDaysValid,
                                              generate_video_token(2))
                         [] OTHER -> NoToken]
  /\ \E k \in PriorViews :
       token_activity_logs =
         <<LogEntry(1, "created"), LogEntry(2, "created")>>
           \o [i \in 1..k |-> ProfileViewLogs("u1")[1]]
           \o <<LogEntry(1, "viewed")>>
  /\ viewer_responses = <<>>
  /\ rowLock = [t \in TokenIds |-> 0]
  /\ proc = [p \in Procs |-> IdleProc]
  /\ reqs = 0
  /\ response = NoResponse
  /\ notifications = <<>>
  /\ disclosed = [t \in TokenIds |-> IF t = 1 THEN 1 ELSE 0]
  /\ profiles = [u \in AuthUsers |->
                   CASE u = "u1" -> NewProfile(generate_profile_token(1))
                     [] u = "u2" -> NewProfile(generate_profile_token(2))
                     [] OTHER -> NoProfile]
  /\ auth_users = Users

\* The responses the viewer of SpecFunnel sends.
FunnelInputs ==
  { ResponseInput("interested", TRUE, FALSE, FALSE, "none"),
    ResponseInput("not_interested", FALSE, FALSE, FALSE, "none") }

\* A viewer reads profiles, redeems tokens and sends responses to tokens and
\* profiles, and the owners read their profile with the funnel at any time.
NextFunnel ==
  \/ \E tok \in ProfileTokens : GetProfileByToken(Viewer, tok)
  \/ \E t \in TokenIds : RedeemLock(Viewer, t)
  \/ RedeemCommit(Viewer)
  \/ RedeemFail(Viewer)
  \/ \E t \in TokenIds, input \in FunnelInputs : SubmitReadToken(Viewer, t, input)
  \/ SubmitCheckExisting(Viewer)
  \/ SubmitInsert(Viewer, TRUE)
  \/ \E tok \in ProfileTokens, input \in FunnelInputs : SubmitProfileRead(Viewer, tok, input)
  \/ SubmitProfileInsert(Viewer, TRUE)
  \/ \E u \in AuthUsers : GetProfile(Owner, u)

SpecFunnel == InitFunnel /\ [][NextFunnel]_vars

\* The bodies the viewer of SpecRoute posts: interested or not, with an email
\* or with no contact field, preferring no method or the phone.
RouteInputs ==
  { ResponseInput(l, e, FALSE, FALSE, pref) :
      l \in {"interested", "not_interested"}, e \in BOOLEAN, pref \in {"none", "phone"} }

\* The paths of the requests to the router: the fixed paths, and the paths
\* with a well-formed code of either kind or with a code that is too short,
\* and a path that no route names.
RequestCodes ==
  {generate_video_token(1), generate_profile_token(1),
   [prefix |-> "VID", len |-> 1, n |-> 1], [prefix |-> "PRO", len |-> 1, n |-> 1]}

RequestPaths ==
  {<<>>, <<Word("metrics")>>, <<Word("generate")>>, <<Word("assign")>>,
   <<Word("custom-video")>>, <<Word("unknown")>>}
  \cup {<<CodeSegment(c)>> : c \in RequestCodes}
  \cup {<<CodeSegment(c), Word(w)>> : c \in RequestCodes, w \in {"video", "response"}}
  \cup {<<CodeSegment(c), Word("response"), Word("check")>> : c \in RequestCodes}
  \cup {<<Word("preview"), CodeSegment(c)>> : c \in RequestCodes}

\* A viewer posts responses to video tokens through the route, also to tokens
\* that have their response; new requests stop once more than MaxStored
\* responses are stored.
NextRoute ==
  \/ \E t \in TokenIds, body \in RouteInputs :
        Len(viewer_responses) <= MaxStored /\ PostResponse(Viewer, t, body)
  \/ SubmitCheckExisting(Viewer)
  \/ \E ok \in BOOLEAN : SubmitInsert(Viewer, ok)

SpecRoute == Init /\ [][NextRoute]_vars

\* Requests to the router of /tokens, with and without a session.
NextRouter ==
  \E method \in {"GET", "POST"}, path \in RequestPaths, authed \in BOOLEAN :
     HttpRequest(Owner, method, path, authed)

SpecRouter == Init /\ [][NextRouter]_vars

\* The owner u1 has one custom video with its token and no default video yet.
InitUploads ==
  /\ now = 0
  /\ videos = [v \in VideoIds |-> IF v = 1 THEN NewVideo("u1", "custom") ELSE NoVideo]
  /\ video_tokens = [t \in TokenIds |->
                       IF t = 1 THEN NewToken("u1", 1, DefaultDaysValid, generate_video_token(1))
                       ELSE NoToken]
  /\ token_activity_logs = <<LogEntry(1, "created")>>
  /\ viewer_responses = <<>>
  /\ rowLock = [t \in TokenIds |-> 0]
  /\ proc = [p \in Procs |-> IdleProc]
  /\ reqs = 0
  /\ response = NoResponse
  /\ notifications = <<>>
  /\ disclosed = [t \in TokenIds |-> 0]
  /\ profiles = [u \in AuthUsers |->
                   CASE u = "u1" -> NewProfile(generate_profile_token(1))
                     [] u = "u2" -> NewProfile(generate_profile_token(2))
                     [] OTHER -> NoProfile]
  /\ auth_users = Users

\* Uploads of default videos, up to MaxProcs of them running at once.
NextUploads ==
  \/ \E p \in Procs, u \in Users, findOk \in BOOLEAN : UploadFind(p, u, findOk)
  \/ \E p \in Procs, ok \in BOOLEAN : UploadDeleteExisting(p, ok)
  \/ \E p \in Procs, uploadOk \in BOOLEAN, insertOk \in BOOLEAN :
        UploadInsert(p, uploadOk, insertOk)

SpecUploads == InitUploads /\ [][NextUploads]_vars

\* ================================================================ claims
Present(t) == video_tokens[t].present

\* Process p starts a request on token t in this step: the read of the row is
\* the first statement of redeem, submitTokenResponse and assignVideoToToken.
ReadsToken(p, t) ==
  /\ proc[p].pc = "idle"
  /\ reqs' = reqs + 1
  /\ \/ proc'[p].op \in {"redeem", "submit", "assign"} /\ proc'[p].token = t
     \/ response'.op \in {"redeem", "submit", "assign"} /\ response'.token = t

\* Process p's redemption commits in this step.
RedeemSucceeds(p) ==
  /\ proc[p].pc = "locked"
  /\ response'.op = "redeem"
  /\ response'.result = "success"

\* ---------------------------------------------------------------------- C1
\* C1: of the redemptions of one token run by concurrent viewers, at most one
\* is answered with the video; a redemption that is answered with the video
\* is the only one so far, and every redemption of an existing token that is
\* rejected is rejected as already viewed, after the one success.
C1_ExactlyOneRedemption ==
  /\ \A t \in TokenIds : disclosed[t] <= 1
  /\ \A t \in TokenIds :
       (response.op = "redeem" /\ response.token = t /\ Present(t)
          /\ response.result \notin {"success", "error"})
       => (response.result = MsgViewed /\ disclosed[t] = 1
             /\ video_tokens[t].status = "viewed")
  /\ \A t \in TokenIds :
       (response.op = "redeem" /\ response.token = t /\ response.result = "success")
       => (disclosed[t] = 1 /\ video_tokens[t].status = "viewed")

\* A later redemption of token 2 was turned away as already viewed, after the
\* one that was answered with the video.
C1_Witness ==
  /\ response.op = "redeem"
  /\ response.token = 2
  /\ response.result = MsgViewed
  /\ disclosed[2] = 1
  /\ reqs >= 2

\* ---------------------------------------------------------------------- C2
\* C2: a redemption whose transaction runs later than the token's expires_at
\* is answered with 'Token has expired', never with the video.
C2_ExpiredTokenRejected ==
  \A t \in TokenIds :
    (response.op = "redeem" /\ response.token = t /\ Present(t)
       /\ video_tokens[t].expires_at < response.at
       /\ response.result # "error")
    => response.result = MsgExpired

\* ---------------------------------------------------------------------- C3
\* C3: no step takes a token's status from viewed, expired or revoked back to
\* active.
C3_NoReturnToActive ==
  [][\A t \in TokenIds :
       (Present(t) /\ video_tokens[t].status \in {"viewed", "expired", "revoked"})
       => video_tokens'[t].status # "active"]_vars

\* ---------------------------------------------------------------------- C4
\* C4: at no time do two viewer_responses rows reference the same token.
C4_OneResponsePerToken ==
  \A t \in TokenIds : Cardinality(ResponsesOf(t)) <= 1

\* ---------------------------------------------------------------------- C5
\* C5: when a composite creation returns an error, the video row it wrote is
\* gone: the RPC leaves the videos table as it was, and the fallback leaves no
\* row under the id it inserted.
C5_NoOrphanVideo ==
  [][/\ (response'.op = "create" /\ response'.result = "error") => videos' = videos
     /\ \A p \in Procs :
          (proc[p].op = "seed" /\ proc[p].video # NULL
             /\ response'.op = "seed" /\ response'.result = "error")
          => ~videos'[proc[p].video].present]_vars

\* ---------------------------------------------------------------------- C6
\* C6: a redemption that fails after it locked the row leaves the three tables
\* as they were: the token is still active with no viewed_at, the videos table
\* and the activity log are unchanged.
C6_AbortLeavesNothing ==
  [][\A p \in Procs :
       (proc[p].pc = "locked" /\ response'.op = "redeem" /\ response'.result = "error")
       => /\ video_tokens' = video_tokens
          /\ video_tokens'[proc[p].token].status = "active"
          /\ videos' = videos
          /\ token_activity_logs' = token_activity_logs]_vars

\* A redemption of token 2 has failed after the lock; the token is active and
\* its video is not marked as viewed.
C6_Witness ==
  /\ response.op = "redeem"
  /\ response.token = 2
  /\ response.result = "error"
  /\ video_tokens[2].status = "active"
  /\ video_tokens[2].viewed_at = NULL
  /\ ~videos[video_tokens[2].video_id].is_viewed
  /\ rowLock[2] = 0

\* ---------------------------------------------------------------------- C7
\* C7: a request that reads a token which is active and past its expires_at
\* sets its status to expired in that step and appends an 'expired' entry to
\* the activity log.
C7_ReadFlipsExpired ==
  [][\A p \in Procs, t \in TokenIds :
       (Present(t) /\ video_tokens[t].status = "active"
          /\ video_tokens[t].expires_at < now /\ ReadsToken(p, t))
       => /\ video_tokens'[t].status = "expired"
          /\ token_activity_logs' = Append(token_activity_logs, LogEntry(t, "expired"))]_vars

\* ---------------------------------------------------------------------- C8
\* C8: once a video is marked as viewed, no step changes its first_viewed_at
\* or its viewer_token_id.
C8_FirstViewKept ==
  [][\A v \in VideoIds :
       (videos[v].present /\ videos[v].is_viewed /\ videos'[v].present)
       => /\ videos'[v].first_viewed_at = videos[v].first_viewed_at
          /\ videos'[v].viewer_token_id = videos[v].viewer_token_id]_vars

\* ---------------------------------------------------------------------- C9
\* C9 as stated: no step changes the video_id of an existing token.
C9_VideoIdImmutable ==
  [][\A t \in TokenIds :
       (Present(t) /\ video_tokens'[t].present)
       => video_tokens'[t].video_id = video_tokens[t].video_id]_vars

\* C9 amended: the video_id of an existing token changes only in the update
\* of assignVideoToToken, which sets it to the requested video, the caller
\* owning the token and the video; redemption, response submission, creation
\* and the expiry flip leave it as it is.
C9_VideoIdChangedOnlyByAssign ==
  [][\A t \in TokenIds :
       (Present(t) /\ video_tokens'[t].video_id # video_tokens[t].video_id)
       => \E p \in Procs :
            /\ proc[p].pc = "assign_update"
            /\ proc[p].token = t
            /\ response'.op = "assign"
            /\ response'.result = "success"
            /\ video_tokens'[t].video_id = proc[p].video
            /\ video_tokens[t].user_id = proc[p].user
            /\ videos[proc[p].video].user_id = proc[p].user]_vars

\* assignVideoToToken has moved token 1 from video 1 to video 2.
C9_Witness ==
  /\ response.op = "assign"
  /\ response.token = 1
  /\ response.result = "success"
  /\ video_tokens[1].video_id = 2

\* --------------------------------------------------------------------- C10
\* C10: a redemption that writes viewed_at finds it unset: viewed_at is
\* written at most once per token.
C10_ViewedAtWrittenOnce ==
  [][\A p \in Procs :
       RedeemSucceeds(p) => video_tokens[proc[p].token].viewed_at = NULL]_vars

\* --------------------------------------------------------------------- C11
\* Process p starts a redemption of token t in this step.
RedeemStarts(p, t) ==
  /\ proc[p].pc = "idle"
  /\ reqs' = reqs + 1
  /\ \/ proc'[p].op = "redeem" /\ proc'[p].token = t
     \/ response'.op = "redeem" /\ response'.token = t

\* C11: a redemption of a token whose status is viewed, expired or revoked
\* is answered in its first step with the rejection of that status, and leaves
\* the token rows, the video rows, the activity log and the row lock as they
\* were.
C11_TerminalRedeemIsNoOp ==
  [][\A p \in Procs, t \in TokenIds :
       (Present(t) /\ video_tokens[t].status \in {"viewed", "expired", "revoked"}
          /\ RedeemStarts(p, t))
       => /\ response'.op = "redeem"
          /\ response'.result = RedeemRejection(video_tokens[t].status)
          /\ response'.result \in {MsgViewed, MsgExpired, MsgRevoked}
          /\ video_tokens' = video_tokens
          /\ videos' = videos
          /\ token_activity_logs' = token_activity_logs
          /\ rowLock' = rowLock
          /\ disclosed' = disclosed]_vars

\* A redemption of token 1, stored as expired, has been rejected as expired.
C11_Witness ==
  /\ response.op = "redeem"
  /\ response.token = 1
  /\ response.result = MsgExpired
  /\ video_tokens[1].status = "expired"

\* --------------------------------------------------------------------- C12
NoContact(input) == ~input.email /\ ~input.phone /\ ~input.instagram

\* Process p is about to validate and store the response it holds.
Validates(p) ==
  \/ proc[p].pc = "submit_check" /\ ResponsesOf(proc[p].token) = {}
  \/ proc[p].pc = "profile_insert"

\* C12: an interested response with no email, phone or instagram is refused
\* by the request validator and by the handler, for video and for profile
\* targets, and nothing is stored; a not_interested response with no contact
\* field passes both and is stored with the success result.
C12_ContactRequiredWhenInterested ==
  [][/\ \A input \in AllResponseInputs :
          /\ (input.interestLevel = "interested" /\ NoContact(input))
             => (validateResponseSubmission(input) = MsgContact
                   /\ ContactValidation(input) = MsgContact)
          /\ (input.interestLevel = "not_interested" /\ NoContact(input))
             => (validateResponseSubmission(input) = "ok"
                   /\ ContactValidation(input) = "ok")
     /\ \A p \in Procs :
          (Validates(p) /\ proc[p].input.interestLevel = "interested"
             /\ NoContact(proc[p].input))
          => /\ response'.result = MsgContact
             /\ viewer_responses' = viewer_responses
     /\ \A p \in Procs :
          (proc[p].pc = "submit_check" /\ ResponsesOf(proc[p].token) = {}
             /\ proc[p].input.interestLevel = "not_interested" /\ NoContact(proc[p].input))
          => proc'[p].pc = "submit_insert"
     /\ \A p \in Procs :
          (/\ \/ proc[p].pc = "profile_insert"
              \/ proc[p].pc = "submit_insert" /\ Present(proc[p].token)
           /\ proc[p].input.interestLevel = "not_interested" /\ NoContact(proc[p].input))
          => /\ response'.result = "success"
             /\ Len(viewer_responses') = Len(viewer_responses) + 1]_vars

\* A not_interested response with no contact field is stored for token 2 and
\* its sender has the success result.
C12_Witness ==
  /\ response.op = "submit"
  /\ response.result = "success"
  /\ \E i \in ResponsesOf(2) :
       /\ viewer_responses[i].interest_level = "not_interested"
       /\ ~viewer_responses[i].viewer_email
       /\ ~viewer_responses[i].viewer_phone
       /\ ~viewer_responses[i].viewer_instagram

\* --------------------------------------------------------------------- C13
\* C13: every stored response that names a preferred contact method has that
\* contact method.
C13_PreferredContactGiven ==
  \A i \in 1..Len(viewer_responses) :
    LET r == viewer_responses[i]
    IN  /\ r.preferred_contact_method = "email" => r.viewer_email
        /\ r.preferred_contact_method = "phone" => r.viewer_phone
        /\ r.preferred_contact_method = "instagram" => r.viewer_instagram

\* --------------------------------------------------------------------- C14
\* Process p stores its response in this step and the notification insert fails.
NotificationFails(p) ==
  /\ proc[p].pc \in {"submit_insert", "profile_insert"}
  /\ response'.result = "success"
  /\ notifications' = notifications

\* C14: when the notification insert fails, the response stored by the same
\* request stays in viewer_responses; no step ever removes a stored response.
C14_ResponseKeptWithoutNotification ==
  [][/\ \A p \in Procs :
          NotificationFails(p)
          => /\ Len(viewer_responses') = Len(viewer_responses) + 1
             /\ SubSeq(viewer_responses', 1, Len(viewer_responses)) = viewer_responses
             /\ viewer_responses'[Len(viewer_responses')].interest_level
                  = proc[p].input.interestLevel
     /\ Len(viewer_responses') >= Len(viewer_responses)]_vars

\* A response is stored and its sender has the result, with no notification.
C14_Witness ==
  /\ response.op \in {"submit", "submit_profile"}
  /\ response.result = "success"
  /\ Len(viewer_responses) = 1
  /\ notifications = <<>>

\* --------------------------------------------------------------------- C15
\* C15: when the notification insert fails for an accepted response, the
\* failure is written to the log and the caller gets the success result with
\* a warning.
C15_NotificationFailureWarned ==
  [][\A p \in Procs :
       NotificationFails(p)
       => /\ response'.result = "success"
          /\ response'.logged
          /\ response'.warning]_vars

AppendedFor(t) ==
  {k \in (Len(token_activity_logs) + 1)..Len(token_activity_logs') :
     token_activity_logs'[k].video_token_id = t}

\* C17: every step that changes the stored row of a token, or stores a new
\* one, appends an activity-log entry for that token.
C17_EveryChangeLogged ==
  [][\A t \in TokenIds :
       (video_tokens'[t].present /\ video_tokens'[t] # video_tokens[t])
       => AppendedFor(t) # {}]_vars

\* --------------------------------------------------------------------- C18
\* C18: the activity log only grows at its end: every step leaves the entries
\* it found in place and unchanged.
C18_LogAppendOnly ==
  [][/\ Len(token_activity_logs') >= Len(token_activity_logs)
     /\ SubSeq(token_activity_logs', 1, Len(token_activity_logs)) = token_activity_logs]_vars

\* --------------------------------------------------------------------- C19
\* C19: a token that a step creates expires at most MaxDaysValid days after
\* that step.
C19_ExpiryBounded ==
  [][\A t \in TokenIds :
       (~Present(t) /\ video_tokens'[t].present)
       => video_tokens'[t].expires_at <= now + MaxDaysValid]_vars

StoredTokenCodes == {video_tokens[t].token_code : t \in {i \in TokenIds : Present(i)}}
StoredProfileTokens ==
  {profiles[u].profile_token : u \in {o \in AuthUsers : profiles[o].present}}

\* C21: an issuance of a video token that generated a code some row already
\* holds goes on to generate another code, so it has more than one code behind
\* it when it returns; and no two rows ever hold the same code.
C21_CollisionRetried ==
  [][/\ (/\ response'.op \in {"create", "generate"}
         /\ \E i \in 1..Len(response'.codes) :
              response'.codes[i] \in StoredTokenCodes)
        => Len(response'.codes) > 1
     /\ \A t1, t2 \in TokenIds :
          (video_tokens'[t1].present /\ video_tokens'[t2].present /\ t1 # t2)
          => video_tokens'[t1].token_code # video_tokens'[t2].token_code]_vars

\* --------------------------------------------------------------------- C23
\* C23: every profile holds one PRO- token; a step that creates the profile
\* of an owner is the signup trigger, the manual creation of register or the
\* creation of authenticate for that owner and sets the token; and no step
\* changes the token of a profile that exists.
C23_OneProfileTokenForever ==
  [][\A u \in AuthUsers :
       /\ profiles'[u].present => profiles'[u].profile_token.prefix = "PRO"
       /\ (profiles[u].present /\ profiles'[u].present)
          => profiles'[u].profile_token = profiles[u].profile_token
       /\ (~profiles[u].present /\ profiles'[u].present)
          => \E p \in Procs :
               \/ /\ proc[p].pc = "idle"
                  /\ proc'[p].pc = "register_check"
                  /\ proc'[p].user = u
                  /\ profiles'[u].profile_token \in
                       {generate_profile_token(n) : n \in RandomValues}
               \/ /\ proc[p].pc \in {"register_create", "auth_create"}
                  /\ proc[p].user = u
                  /\ response'.result = "success"
                  /\ response'.codes = <<profiles'[u].profile_token>>]_vars

\* u3 has the profile the signup trigger made, and authenticate has just made
\* the profile of u4 with the code it generated.
C23_Witness ==
  /\ profiles["u3"].present
  /\ profiles["u3"].profile_token \in {generate_profile_token(n) : n \in RandomValues}
  /\ profiles["u4"].present
  /\ response.op = "authenticate"
  /\ response.result = "success"
  /\ response.codes = <<profiles["u4"].profile_token>>

\* --------------------------------------------------------------------- C22
\* C22: at no time does an owner have two active videos of kind default.
C22_OneActiveDefaultVideo ==
  \A u \in Users : Cardinality(ActiveDefaultVideos(u)) <= 1

\* --------------------------------------------------------------------- C24
\* The numbers in the text of the funnel an owner was answered with.
FunnelNumbers ==
  << response.data[2][1], response.data[2][3], response.data[2][5], response.data[2][7] >>

\* C24: the funnel an owner u reads is, in this order, the number of 'viewed'
\* log entries of log_type profile_token of u's profile, the number of u's
\* tokens in status viewed, the number of responses to u's profile or to one
\* of u's tokens, and the number of those with interest level interested; an
\* owner with no activity reads four zeros.
C24_FunnelCounts ==
  \A u \in Users :
    (response.op = "funnel" /\ response.result = "success" /\ response.data[1] = u)
    => LET entries == {i \in 1..Len(token_activity_logs) :
                         token_activity_logs[i] = ProfileViewLogs(u)[1]}
           viewed == {t \in TokenIds : Present(t) /\ video_tokens[t].user_id = u
                                        /\ video_tokens[t].status = "viewed"}
           answers == {i \in 1..Len(viewer_responses) :
                         \/ /\ viewer_responses[i].response_type = "profile"
                            /\ viewer_responses[i].profile_id = u
                         \/ /\ viewer_responses[i].response_type = "video"
                            /\ video_tokens[viewer_responses[i].video_token_id].user_id = u}
           keen == {i \in answers : viewer_responses[i].interest_level = "interested"}
       IN  /\ Len(response.data[2]) = 8
           /\ FunnelNumbers = << Cardinality(entries), Cardinality(viewed),
                                 Cardinality(answers), Cardinality(keen) >>
           /\ (entries = {} /\ viewed = {} /\ answers = {})
              => FunnelNumbers = <<0, 0, 0, 0>>

\* u1's profile has three 'viewed' entries, two of u1's tokens are viewed and
\* one interested response to one of them is stored: the funnel u1 reads has
\* the numbers 3, 2, 1, 1.
C24_Witness ==
  /\ response.op = "funnel"
  /\ response.result = "success"
  /\ response.data[1] = "u1"
  /\ FunnelNumbers = <<3, 2, 1, 1>>
  /\ Cardinality(ProfileViewEntries("u1")) = 3
  /\ video_tokens[1].status = "viewed"
  /\ video_tokens[2].status = "viewed"
  /\ Len(viewer_responses) = 1
  /\ viewer_responses[1].response_type = "video"
  /\ viewer_responses[1].interest_level = "interested"

\* --------------------------------------------------------------------- C25
\* The contact-consistency rule: an interested response has a contact method,
\* and the one it prefers.
ContactConsistent(body) ==
  body.interestLevel = "interested"
  => /\ body.email \/ body.phone \/ body.instagram
     /\ body.preferredContact = "email" => body.email
     /\ body.preferredContact = "phone" => body.phone
     /\ body.preferredContact = "instagram" => body.instagram

C26_AssignOnlyByOwner ==
  [][\A p \in Procs :
       /\ proc'[p].pc = "assign_video"
          => video_tokens[proc'[p].token].user_id = proc'[p].user
       /\ proc'[p].pc = "assign_update"
          => /\ video_tokens[proc'[p].token].user_id = proc'[p].user
             /\ videos[proc'[p].video].user_id = proc'[p].user
       /\ (proc[p].op = "assign" /\ proc'[p].pc = "idle" /\ video_tokens' # video_tokens)
          => /\ video_tokens[proc[p].token].user_id = proc[p].user
             /\ videos[proc[p].video].user_id = proc[p].user
             /\ response'.result = "success"
             /\ \A t \in TokenIds \ {proc[p].token} : video_tokens'[t] = video_tokens[t]
       /\ (response'.op = "assign" /\ response'.result \in {MsgNotTokenOwner, MsgNotVideoOwner}
           /\ proc[p].pc # proc'[p].pc)
          => video_tokens' = video_tokens]_vars

\* A caller was refused the assignment of a video of another owner to the
\* token 1, which is as it was created.
C26_Witness ==
  /\ response.op = "assign"
  /\ response.token = 1
  /\ response.result = MsgNotVideoOwner
  /\ video_tokens[1] = NewToken("u1", 1, 0, generate_video_token(1))
  /\ \E v \in VideoIds : videos[v].present /\ videos[v].user_id # "u1"

\* --------------------------------------------------------------------- C27
\* C27: an authenticated GET /tokens/metrics is handled by getTokenMetrics.
C27_MetricsRouteReached ==
  (/\ response.op = "route"
   /\ response.data[1] = [method |-> "GET", path |-> <<Word("metrics")>>, authed |-> TRUE])
  => response.result = "getTokenMetrics"

\* --------------------------------------------------------------------- C29
\* C29: every code a profile or a video token row holds has the prefix PRO or
\* VID and between 6 and 24 letters or digits after the dash.
C29_StoredCodesWellFormed ==
  \A code \in StoredProfileTokens \cup StoredTokenCodes :
     /\ code.prefix \in {"PRO", "VID"}
     /\ code.len \in 6..24

\* --------------------------------------------------------------------- C28
\* C28: when an upload of a default video ends with the storage upload error
\* or the record insert error, the default videos the owner had when the
\* upload looked for them are still present and active.
C28_FailedUploadKeepsDefault ==
  [][\A p \in Procs :
       (/\ proc[p].pc = "upload_insert"
        /\ response'.op = "upload"
        /\ response'.result \in {MsgUploadFailed, MsgRecordFailed})
       => \A v \in proc[p].found : videos'[v].present /\ videos'[v].is_active]_vars

\* --------------------------------------------------------------------- C30
\* C30: a submission to a video token goes on past its read only if the row
\* it reads has the status active or viewed; one that reads another status is
\* answered 'Token is <status>' and writes no response, no log entry and no
\* notification; and a response is only ever stored, for the token it read,
\* by a submission that went past that read.
C30_ResponseOnlyWhileActiveOrViewed ==
  [][\A p \in Procs :
       /\ (proc[p].pc = "idle" /\ proc'[p].op = "submit")
          => video_tokens[proc'[p].token].status \in {"active", "viewed"}
       /\ (/\ proc[p].pc = "idle"
           /\ proc'[p].pc = "idle"
           /\ reqs' = reqs + 1
           /\ response'.op = "submit"
           /\ Present(response'.token)
           /\ video_tokens[response'.token].status \notin {"active", "viewed"})
          => /\ response'.result = "Token is " \o video_tokens[response'.token].status
             /\ viewer_responses' = viewer_responses
             /\ token_activity_logs' = token_activity_logs
             /\ notifications' = notifications
       /\ viewer_responses' # viewer_responses
          => \E q \in Procs :
               /\ proc[q].op = "submit"
               /\ proc[q].pc = "submit_insert"
               /\ proc'[q].pc = "idle"
               /\ Len(viewer_responses') = Len(viewer_responses) + 1
               /\ viewer_responses'[Len(viewer_responses')].video_token_id = proc[q].token]_vars

\* A submission to token 1, which a redemption found expired, was answered
\* 'Token is expired', and nothing was stored for it.
C30_Witness ==
  /\ response.op = "submit"
  /\ response.token = 1
  /\ response.result = "Token is expired"
  /\ video_tokens[1].status = "expired"
  /\ ResponsesOf(1) = {}
  /\ notifications = <<>>
====
